---- MODULE Spec2Model ----
(***************************************************************************)
(* Model of the /upload ingestion handler of the T-Watch health monitor    *)
(* server (src/server.py; the TWatchMonitor variant carries the same       *)
(* handler).  A request body is parsed, the device's cached entry is       *)
(* loaded from the JSON cache, its fields are updated from the payload,    *)
(* events are derived from the transition and appended to the device's    *)
(* log, and the cache is saved.                                            *)
(*                                                                         *)
(* JSON values are records [t, n, s]: t is the JSON type, n the number     *)
(* (a float is held in tenths) and s the string.  Python dicts (payloads,  *)
(* device entries, event payloads) are functions whose DOMAIN is the set   *)
(* of keys present.                                                        *)
(***************************************************************************)
EXTENDS Integers, Sequences, FiniteSets, TLC

VARIABLES
    data,     \* contents of data.json: device id -> device entry
    clock,    \* number of requests handled so far; also the value of now()
    call,     \* the request handled by the last step
    resp,     \* the response returned by the last step
    before,   \* contents of data.json when the last step began
    threads,  \* requests in progress in the threaded server: thread -> its locals
    sent      \* what the last step handed to Supabase and SQLite, and which were down

vars == <<data, clock, call, resp, before, threads, sent>>

-----------------------------------------------------------------------------
(* Bounds *)

MaxCalls == 2

NumThreads == 2

\* the number of calls in the runs that include the dashboard's handlers
MaxAdminCalls == 3

-----------------------------------------------------------------------------
(* JSON values *)

Null   == [t |-> "null",  n |-> 0, s |-> ""]
I(n)   == [t |-> "int",   n |-> n, s |-> ""]
Fl(n)  == [t |-> "float", n |-> n, s |-> ""]
B(b)   == [t |-> "bool",  n |-> IF b THEN 1 ELSE 0, s |-> ""]
S(s)   == [t |-> "str",   n |-> 0, s |-> s]

EmptyDict == <<>>

Get(d, k, default) == IF k \in DOMAIN d THEN d[k] ELSE default

Put(d, k, v) == (k :> v) @@ d

-----------------------------------------------------------------------------
(* Python built-ins used by the handler, on the values the model sends *)

\* bool(v)
Truthy(v) ==
    CASE v.t = "null"  -> FALSE
      [] v.t = "str"   -> v.s # ""
      [] OTHER         -> v.n # 0

\* the strings int() and float() accept, with the number they denote
NumericStrings == [s \in {"0", "1", "100"} |-> CASE s = "0" -> 0 [] s = "1" -> 1 [] s = "100" -> 100]

\* int(v): ok is FALSE where Python raises ValueError / TypeError
PyInt(v) ==
    CASE v.t \in {"int", "bool"} -> [ok |-> TRUE, val |-> I(v.n)]
      [] v.t = "float"           -> [ok |-> TRUE, val |-> I(v.n \div 10)]
      [] v.t = "str" /\ v.s \in DOMAIN NumericStrings
                                 -> [ok |-> TRUE, val |-> I(NumericStrings[v.s])]
      [] OTHER                   -> [ok |-> FALSE, val |-> v]

\* float(v)
PyFloat(v) ==
    CASE v.t \in {"int", "bool"} -> [ok |-> TRUE, val |-> Fl(v.n * 10)]
      [] v.t = "float"           -> [ok |-> TRUE, val |-> v]
      [] v.t = "str" /\ v.s \in DOMAIN NumericStrings
                                 -> [ok |-> TRUE, val |-> Fl(NumericStrings[v.s] * 10)]
      [] OTHER                   -> [ok |-> FALSE, val |-> v]

\* str(v), for the values an event label takes in the model
PyStr(v) ==
    CASE v.t = "str"  -> v.s
      [] v.t = "null" -> "None"
      [] v.t = "int" /\ v.n = 5 -> "5"
      [] OTHER        -> "?"

\* s.lower()
Lower(s) ==
    CASE s = "FALL"    -> "fall"
      [] s = "Seizure" -> "seizure"
      [] s = "SOS"     -> "sos"
      [] s = "Status"  -> "status"
      [] OTHER         -> s

\* int(bool(v))
IntBool(v) == I(IF Truthy(v) THEN 1 ELSE 0)

\* a or b
PyOr(a, b) == IF Truthy(a) THEN a ELSE b

-----------------------------------------------------------------------------
(* The upload handler, src/server.py 472-643 *)

FlagNames == <<"seizure", "fall", "sos">>

\* variant: the isinstance check is missing
ParseBody_NoTypeCheck(body) ==
    CASE body.kind = "object"  -> [ok |-> TRUE,  isdict |-> TRUE,  incoming |-> body.obj]
      [] body.kind = "invalid" -> [ok |-> FALSE, isdict |-> FALSE, incoming |-> EmptyDict]
      [] OTHER                 -> [ok |-> TRUE,  isdict |-> TRUE,  incoming |-> EmptyDict]

\* the request body: what request.get_json / json.loads make of it
ParseBody(body) ==
    CASE body.kind = "object"  -> [ok |-> TRUE,  isdict |-> TRUE,  incoming |-> body.obj]
      [] body.kind = "invalid" -> [ok |-> FALSE, isdict |-> FALSE, incoming |-> EmptyDict]
      [] OTHER                 -> [ok |-> TRUE,  isdict |-> FALSE, incoming |-> EmptyDict]

\* variant: a payload without an identifier is filed under a default id
DeviceOf_DefaultId(incoming) ==
    PyOr(PyOr(PyOr(Get(incoming, "device_id", Null), Get(incoming, "device", Null)),
              Get(incoming, "deviceId", Null)),
         S("unknown"))

DeviceOf(incoming) ==
    PyOr(PyOr(Get(incoming, "device_id", Null), Get(incoming, "device", Null)),
         Get(incoming, "deviceId", Null))

DefaultEntry(device) ==
    [display_name |-> S(device), temperature |-> Null, steps |-> Null,
     fall |-> I(0), seizure |-> I(0), sos |-> I(0), sleep_state |-> I(0),
     timestamp |-> Null, events |-> <<>>, last_raw |-> Null]

PrevOf(dev) ==
    [fall |-> Get(dev, "fall", I(0)), seizure |-> Get(dev, "seizure", I(0)),
     sos |-> Get(dev, "sos", I(0)), steps |-> Get(dev, "steps", Null),
     sleep_state |-> Get(dev, "sleep_state", Null)]

UpdateTemperature(dev, incoming) ==
    IF "temperature" \in DOMAIN incoming
    THEN Put(dev, "temperature", PyFloat(incoming["temperature"]).val)
    ELSE dev

\* variant: an absent key resets the stored value
UpdateSteps_AbsentResets(dev, incoming) ==
    IF "steps" \in DOMAIN incoming
    THEN Put(dev, "steps", PyInt(incoming["steps"]).val)
    ELSE Put(dev, "steps", Null)

UpdateSteps(dev, incoming) ==
    IF "steps" \in DOMAIN incoming
    THEN Put(dev, "steps", PyInt(incoming["steps"]).val)
    ELSE dev

UpdateSleep(dev, incoming) ==
    IF "sleep_state" \in DOMAIN incoming
    THEN LET i == PyInt(incoming["sleep_state"])
         IN  Put(dev, "sleep_state",
                 IF i.ok THEN IntBool(i.val) ELSE IntBool(incoming["sleep_state"]))
    ELSE dev

\* variant: the label is tested before the key
UpdateFlag_LabelFirst(dev, incoming, flag) ==
    IF Lower(PyStr(Get(incoming, "event", S("")))) = flag
    THEN Put(dev, flag, I(1))
    ELSE IF flag \in DOMAIN incoming
         THEN Put(dev, flag, IntBool(incoming[flag]))
         ELSE dev

\* variant: an absent key is read as 0 and stored
UpdateFlag_AbsentClears(dev, incoming, flag) ==
    IF Lower(PyStr(Get(incoming, "event", S("")))) = flag /\ flag \notin DOMAIN incoming
    THEN Put(dev, flag, I(1))
    ELSE Put(dev, flag, IntBool(Get(incoming, flag, I(0))))

UpdateFlag(dev, incoming, flag) ==
    IF flag \in DOMAIN incoming
    THEN Put(dev, flag, IntBool(incoming[flag]))
    ELSE IF Lower(PyStr(Get(incoming, "event", S("")))) = flag
         THEN Put(dev, flag, I(1))
         ELSE dev

\* variant: the timestamp is set only by a payload that carries a recognized field
UpdateFields_NoTimestamp(dev, incoming, ts) ==
    LET d0 == Put(dev, "last_raw", incoming)
        d1 == UpdateTemperature(d0, incoming)
        d2 == UpdateSteps(d1, incoming)
        d3 == UpdateSleep(d2, incoming)
        d4 == UpdateFlag(d3, incoming, "fall")
        d5 == UpdateFlag(d4, incoming, "seizure")
        d6 == UpdateFlag(d5, incoming, "sos")
    IN  IF d6 = d0 THEN d6 ELSE Put(d6, "timestamp", I(ts))

UpdateFields(dev, incoming, ts) ==
    LET d0 == Put(dev, "last_raw", incoming)
        d1 == UpdateTemperature(d0, incoming)
        d2 == UpdateSteps(d1, incoming)
        d3 == UpdateSleep(d2, incoming)
        d4 == UpdateFlag(d3, incoming, "fall")
        d5 == UpdateFlag(d4, incoming, "seizure")
        d6 == UpdateFlag(d5, incoming, "sos")
    IN  Put(d6, "timestamp", I(ts))

\* incoming.get("event", "").lower() raises AttributeError on a non-string
EventTypeRaises(incoming) ==
    "event" \in DOMAIN incoming /\ incoming["event"].t # "str"

EventType(incoming) ==
    IF "event" \in DOMAIN incoming THEN S(Lower(incoming["event"].s)) ELSE Null

IsRising(prev, incoming, event_type, flag) ==
    /\ flag \in DOMAIN incoming \/ event_type = S(flag)
    /\ IntBool(Get(incoming, flag, I(0))) = I(1)
    /\ IntBool(prev[flag]) = I(0)

\* the flags of the for loop that pass the rising-edge test, in loop order
RisingFlags(prev, incoming, event_type) ==
    SelectSeq(FlagNames, LAMBDA f : IsRising(prev, incoming, event_type, f))

\* rule 1: the loop breaks at the first rising flag
AlertEvents(prev, incoming, event_type, ts) ==
    LET r == RisingFlags(prev, incoming, event_type)
    IN  IF r = <<>> THEN <<>>
        ELSE << [ev |-> [event |-> r[1], ts |-> ts, payload |-> incoming],
                 created |-> r[1],
                 row |-> [event_type |-> r[1], payload |-> incoming]] >>

\* variant: "status" is not replaced
LabelOr_KeepStatus(event_type, default) ==
    IF event_type # Null /\ Truthy(event_type) THEN event_type.s ELSE default

\* event_type or default, with "status" replaced by the default
LabelOr(event_type, default) ==
    IF event_type = S("status") THEN default
    ELSE IF event_type # Null /\ Truthy(event_type) THEN event_type.s ELSE default

\* variant: rule 2 compares the stored value with the raw payload value
SleepEvents_RawCompare(alert_triggered, prev, dev, incoming, event_type, ts) ==
    IF /\ ~alert_triggered
       /\ "sleep_state" \in DOMAIN incoming
       /\ prev.sleep_state # incoming["sleep_state"]
    THEN << [ev |-> [event |-> LabelOr(event_type, "sleep_state_change"), ts |-> ts,
                     payload |-> [sleep_state |-> Get(dev, "sleep_state", Null)]],
             created |-> "sleep_state_change",
             row |-> [event_type |-> "sleep_state_change", payload |-> [sleep_state |-> Get(dev, "sleep_state", Null)]]] >>
    ELSE <<>>

\* variant: rule 2 without the alert guard
SleepEvents_NoAlertGuard(alert_triggered, prev, dev, incoming, event_type, ts) ==
    IF /\ "sleep_state" \in DOMAIN incoming
       /\ prev.sleep_state # Get(dev, "sleep_state", Null)
    THEN << [ev |-> [event |-> LabelOr(event_type, "sleep_state_change"), ts |-> ts,
                     payload |-> [sleep_state |-> Get(dev, "sleep_state", Null)]],
             created |-> "sleep_state_change",
             row |-> [event_type |-> "sleep_state_change", payload |-> [sleep_state |-> Get(dev, "sleep_state", Null)]]] >>
    ELSE <<>>

\* rule 2
SleepEvents(alert_triggered, prev, dev, incoming, event_type, ts) ==
    IF /\ ~alert_triggered
       /\ "sleep_state" \in DOMAIN incoming
       /\ prev.sleep_state # Get(dev, "sleep_state", Null)
    THEN << [ev |-> [event |-> LabelOr(event_type, "sleep_state_change"), ts |-> ts,
                     payload |-> [sleep_state |-> Get(dev, "sleep_state", Null)]],
             created |-> "sleep_state_change",
             row |-> [event_type |-> "sleep_state_change", payload |-> [sleep_state |-> Get(dev, "sleep_state", Null)]]] >>
    ELSE <<>>

\* variant: rule 3 without the change test
StepsEvents_AlwaysEmit(alert_triggered, prev, dev, incoming, event_type, ts) ==
    IF /\ ~alert_triggered
       /\ "steps" \in DOMAIN incoming
    THEN << [ev |-> [event |-> LabelOr(event_type, "steps_update"), ts |-> ts,
                     payload |-> [steps |-> Get(dev, "steps", Null)]],
             created |-> "steps_update",
             row |-> [event_type |-> "steps_update", payload |-> [steps |-> Get(dev, "steps", Null)]]] >>
    ELSE <<>>

\* rule 3
StepsEvents(alert_triggered, prev, dev, incoming, event_type, ts) ==
    IF /\ ~alert_triggered
       /\ "steps" \in DOMAIN incoming
       /\ prev.steps = Null \/ Get(dev, "steps", Null) # prev.steps
    THEN << [ev |-> [event |-> LabelOr(event_type, "steps_update"), ts |-> ts,
                     payload |-> [steps |-> Get(dev, "steps", Null)]],
             created |-> "steps_update",
             row |-> [event_type |-> "steps_update", payload |-> [steps |-> Get(dev, "steps", Null)]]] >>
    ELSE <<>>

\* variant: rule 4 does not look at events_created
GenericEvents_NoGuard(events_created, incoming, event_type, ts) ==
    IF /\ event_type # Null /\ Truthy(event_type)
       /\ event_type.s \notin {"status", ""}
    THEN << [ev |-> [event |-> event_type.s, ts |-> ts, payload |-> incoming],
             created |-> event_type.s,
             row |-> [event_type |-> event_type.s, payload |-> incoming]] >>
    ELSE <<>>

\* rule 4
GenericEvents(events_created, incoming, event_type, ts) ==
    IF /\ events_created = <<>>
       /\ event_type # Null /\ Truthy(event_type)
       /\ event_type.s \notin {"status", ""}
    THEN << [ev |-> [event |-> event_type.s, ts |-> ts, payload |-> incoming],
             created |-> event_type.s,
             row |-> [event_type |-> event_type.s, payload |-> incoming]] >>
    ELSE <<>>

\* the events one call derives, in the order the handler appends them
DeriveEvents(prev, dev, incoming, ts) ==
    LET event_type == EventType(incoming)
        alert == AlertEvents(prev, incoming, event_type, ts)
        sleep == SleepEvents(alert # <<>>, prev, dev, incoming, event_type, ts)
        steps == StepsEvents(alert # <<>>, prev, dev, incoming, event_type, ts)
        first == alert \o sleep \o steps
    IN  first \o GenericEvents(first, incoming, event_type, ts)

EventCap == 200

\* variant: lst[:n], the oldest entries are kept
LastN_KeepOldest(lst, n) ==
    IF Len(lst) <= n THEN lst ELSE SubSeq(lst, 1, n)

\* lst[-n:]
LastN(lst, n) ==
    IF Len(lst) <= n THEN lst ELSE SubSeq(lst, Len(lst) - n + 1, Len(lst))

Seq2Map(emitted, field) == [i \in 1..Len(emitted) |-> emitted[i][field]]

\* the whole handler: the response and the cache it leaves
UploadResult(d, body, ts) ==
    LET parsed == ParseBody(body)
        incoming == parsed.incoming
        device == DeviceOf(incoming)
    IN  IF ~parsed.ok
        THEN [data |-> d, status |-> 400, error |-> "invalid_json", events_created |-> <<>>, rows |-> <<>>, dev |-> EmptyDict]
        ELSE IF ~parsed.isdict
        THEN [data |-> d, status |-> 400, error |-> "payload_must_be_object", events_created |-> <<>>, rows |-> <<>>, dev |-> EmptyDict]
        ELSE IF ~Truthy(device)
        THEN [data |-> d, status |-> 400, error |-> "missing_device_id", events_created |-> <<>>, rows |-> <<>>, dev |-> EmptyDict]
        ELSE LET loaded == IF device.s \in DOMAIN d THEN d ELSE Put(d, device.s, DefaultEntry(device.s))
                 dev0 == loaded[device.s]
                 prev == PrevOf(dev0)
                 dev1 == UpdateFields(dev0, incoming, ts)
             IN  IF EventTypeRaises(incoming)
                 THEN [data |-> d, status |-> 500, error |-> "processing_error", events_created |-> <<>>, rows |-> <<>>, dev |-> EmptyDict]
                 ELSE LET emitted == DeriveEvents(prev, dev1, incoming, ts)
                          log == Get(dev1, "events", <<>>) \o Seq2Map(emitted, "ev")
                          dev2 == Put(dev1, "events", LastN(log, EventCap))
                      IN  [data |-> Put(loaded, device.s, dev2), status |-> 200, error |-> "",
                           events_created |-> Seq2Map(emitted, "created"),
                           rows |-> Seq2Map(emitted, "row"), dev |-> dev2]

-----------------------------------------------------------------------------
(* The secondary stores: the Supabase events and devices tables and the local *)
(* SQLite file.  The handlers only write to them.                             *)

Collaborators == {"supa_insert_event", "supa_upsert_device", "save_sqlite"}

NoSent == [events |-> <<>>, devices |-> {}, sqlite |-> <<>>, down |-> {}]

\* variant: the collaborator's exception is not caught
Call_Propagates(collab, down) == [raised |-> collab \in down]

\* one call of a collaborator: when it is down its exception is caught and
\* printed, in the collaborator or around the call, and the handler goes on
Call(collab, down) == [raised |-> FALSE]

\* the snapshot save_data sends to the devices table for a cached entry
CacheSnapshot(entry, device_id) ==
    [display_name |-> Get(entry, "display_name", S(device_id)),
     temperature |-> Get(entry, "temperature", Null), steps |-> Get(entry, "steps", Null),
     fall |-> Get(entry, "fall", Null), seizure |-> Get(entry, "seizure", Null),
     sos |-> Get(entry, "sos", Null), sleep_state |-> Get(entry, "sleep_state", Null),
     last_ts |-> Get(entry, "timestamp", Null), last_payload |-> Get(entry, "last_raw", Null)]

\* save_data's sync of every cached entry to the devices table
SyncRows(d) == { [device_id |-> id, snapshot |-> CacheSnapshot(d[id], id)] : id \in DOMAIN d }

\* the snapshot upload sends after saving the cache
Snapshot(dev, device) ==
    [display_name |-> Get(dev, "display_name", S(device)),
     temperature |-> Get(dev, "temperature", Null), steps |-> Get(dev, "steps", Null),
     fall |-> B(Truthy(Get(dev, "fall", Null))), seizure |-> B(Truthy(Get(dev, "seizure", Null))),
     sos |-> B(Truthy(Get(dev, "sos", Null))), sleep_state |-> B(Truthy(Get(dev, "sleep_state", Null))),
     last_ts |-> Get(dev, "timestamp", Null), last_payload |-> Get(dev, "last_raw", Null)]

\* the handler's calls of its collaborators: r is what the handler computed
\* from the cache d, down is the set of collaborators that fail
Deliver(r, d, device, down) ==
    LET events == [i \in 1..Len(r.rows) |->
                      [device_id |-> device, event_type |-> r.rows[i].event_type,
                       payload |-> r.rows[i].payload]]
        raised == \/ r.rows # <<>> /\ Call("supa_insert_event", down).raised
                  \/ Call("supa_upsert_device", down).raised
                  \/ Call("save_sqlite", down).raised
    IN  IF r.status # 200
        THEN [data |-> r.data, status |-> r.status, error |-> r.error,
              events_created |-> r.events_created, sent |-> NoSent]
        ELSE IF raised
        THEN [data |-> d, status |-> 500, error |-> "processing_error",
              events_created |-> <<>>, sent |-> [NoSent EXCEPT !.down = down]]
        ELSE [data |-> r.data, status |-> 200, error |-> "", events_created |-> r.events_created,
              sent |-> [events |-> events,
                        devices |-> SyncRows(r.data)
                                    \cup {[device_id |-> device, snapshot |-> Snapshot(r.dev, device)]},
                        sqlite |-> << [device_id |-> device, event_type |-> "snapshot",
                                       payload |-> Snapshot(r.dev, device)] >>,
                        down |-> down]]

\* the handler with its collaborators
UploadOutcome(d, body, ts, down) ==
    Deliver(UploadResult(d, body, ts), d, DeviceOf(ParseBody(body).incoming).s, down)

-----------------------------------------------------------------------------
(* Requests *)

Opt(k, vs) == {EmptyDict} \cup {k :> v : v \in vs}

W1 == [device_id |-> S("W1")]

FlagPayloads ==
    { W1 @@ a @@ b @@ c : a \in Opt("fall", {I(0), I(1)}),
                          b \in Opt("seizure", {I(0), I(1)}),
                          c \in Opt("sos", {I(1)}) }

LabelPayloads ==
    { W1 @@ e @@ a : e \in Opt("event", {S("status"), S(""), S("FALL"), S("seizure"), S("custom"), I(5)}),
                     a \in Opt("fall", {I(0), I(1)}) }

TelemetryPayloads ==
    { W1 @@ a @@ b @@ c : a \in Opt("sleep_state", {I(0), I(1), S("0")}),
                          b \in Opt("steps", {I(100), S("100"), Null, S("abc")}),
                          c \in Opt("temperature", {I(36)}) }

MixedPayloads ==
    { W1 @@ [sleep_state |-> B(TRUE), temperature |-> S("hot")] @@ a @@ b @@ e :
          a \in Opt("fall", {I(1)}),
          b \in Opt("steps", {Fl(1005)}),
          e \in Opt("event", {S("custom"), S("FALL"), S("Status"), S("")}) }

IdPayloads ==
    { [steps |-> I(100)],
      [device_id |-> S(""), steps |-> I(100)],
      [device |-> S("W2"), steps |-> I(100)],
      [device_id |-> S(""), deviceId |-> S("W2"), fall |-> I(1)],
      W1 @@ [battery |-> I(50)] }

Payloads == FlagPayloads \cup LabelPayloads \cup TelemetryPayloads \cup MixedPayloads \cup IdPayloads

ObjectBody(p) == [kind |-> "object", obj |-> p]

BadBodies == { [kind |-> k, obj |-> EmptyDict] : k \in {"invalid", "empty", "array", "scalar", "null"} }

-----------------------------------------------------------------------------
(* State machine *)

NoCall == [op |-> "none", body |-> [kind |-> "null", obj |-> EmptyDict]]

NoResp == [status |-> 0, error |-> "", events_created |-> <<>>]

Threads == 1..NumThreads

Idle == [pc |-> "idle", body |-> NoCall.body, loaded |-> EmptyDict, ts |-> 0,
         status |-> 0, error |-> "", events_created |-> <<>>]

Init ==
    /\ data = EmptyDict
    /\ clock = 0
    /\ call = NoCall
    /\ resp = NoResp
    /\ before = EmptyDict
    /\ threads = [t \in Threads |-> Idle]
    /\ sent = NoSent

\* the handler returns r: the cache it saved, its response, what it sent on
Returns(body, r, max) ==
    /\ clock < max
    /\ clock' = clock + 1
    /\ call' = [op |-> "upload", body |-> body]
    /\ before' = data
    /\ data' = r.data
    /\ resp' = [status |-> r.status, error |-> r.error, events_created |-> r.events_created]
    /\ sent' = r.sent
    /\ UNCHANGED threads

\* one upload request, handled from start to end, in a run of at most max calls
HandleUpTo(body, down, max) ==
    Returns(body, UploadOutcome(data, body, clock + 1, down), max)

\* an upload while the secondary stores are up
Handle(body) == HandleUpTo(body, {}, MaxCalls)

Upload == \E p \in Payloads : Handle(ObjectBody(p))

UploadBadBody == \E b \in BadBodies : Handle(b)

Next == Upload \/ UploadBadBody

Spec == Init /\ [][Next]_vars

\* uploads during which any of the secondary stores may be down
StorePayloads ==
    { W1 @@ [fall |-> I(1)],
      W1 @@ [sleep_state |-> I(1), event |-> S("custom")],
      W1 @@ [steps |-> I(100), event |-> S("Status")],
      W1 @@ [event |-> S("custom")],
      W1 @@ [temperature |-> I(36)],
      [device |-> S("W2"), steps |-> I(100)] }

UploadStore ==
    \E p \in StorePayloads, down \in SUBSET Collaborators :
        HandleUpTo(ObjectBody(p), down, MaxCalls)

NextStore == UploadStore \/ UploadBadBody

SpecStore == Init /\ [][NextStore]_vars

-----------------------------------------------------------------------------
(* The dashboard's handlers that write device entries: clear_alert and       *)
(* rename_device (TWatchMonitor/server.py) and upload_photo (src/server.py). *)

\* session.get("user") of the logged-in dashboard user
SessionUser == S("admin")

\* dev.setdefault("events", []).append(ev); dev["events"] = dev["events"][-200:]
AppendEvent(dev, ev) == Put(dev, "events", LastN(Get(dev, "events", <<>>) \o <<ev>>, EventCap))

\* variant: the event is logged and the flags are left as they are
ClearAlertResult_KeepsFlags(d, device_id, ts) ==
    IF device_id \notin DOMAIN d
    THEN [data |-> d, status |-> 404, error |-> "not found", sent |-> NoSent]
    ELSE LET ev == [event |-> "alert_cleared", ts |-> ts, payload |-> [cleared_by |-> SessionUser]]
         IN  [data |-> Put(d, device_id, AppendEvent(d[device_id], ev)), status |-> 200, error |-> "",
              sent |-> NoSent]

\* variant: the last raw payload is dropped with the flags
ClearAlertResult_ClearsRaw(d, device_id, ts) ==
    IF device_id \notin DOMAIN d
    THEN [data |-> d, status |-> 404, error |-> "not found", sent |-> NoSent]
    ELSE LET dev0 == Put(Put(Put(Put(d[device_id], "fall", I(0)), "seizure", I(0)), "sos", I(0)),
                         "last_raw", Null)
             ev == [event |-> "alert_cleared", ts |-> ts, payload |-> [cleared_by |-> SessionUser]]
         IN  [data |-> Put(d, device_id, AppendEvent(dev0, ev)), status |-> 200, error |-> "",
              sent |-> NoSent]

ClearAlertResult(d, device_id, ts) ==
    IF device_id \notin DOMAIN d
    THEN [data |-> d, status |-> 404, error |-> "not found", sent |-> NoSent]
    ELSE LET dev0 == Put(Put(Put(d[device_id], "fall", I(0)), "seizure", I(0)), "sos", I(0))
             ev == [event |-> "alert_cleared", ts |-> ts, payload |-> [cleared_by |-> SessionUser]]
         IN  [data |-> Put(d, device_id, AppendEvent(dev0, ev)), status |-> 200, error |-> "",
              sent |-> [NoSent EXCEPT !.sqlite =
                           << [device_id |-> device_id, event_type |-> "alert_cleared",
                               payload |-> [alert_cleared |-> B(TRUE), cleared_by |-> SessionUser]] >>]]

\* s.strip()
Strip(s) ==
    CASE s = " Bob " -> "Bob"
      [] s = " "     -> ""
      [] OTHER       -> s

RenameResult(d, payload, ts) ==
    LET device_id == PyOr(Get(payload, "device_id", Null), Get(payload, "old_id", Null))
        raw_name == PyOr(Get(payload, "new_name", Null), Get(payload, "new_id", Null))
        new_name == Strip(raw_name.s)
    IN  IF payload = EmptyDict
        THEN [data |-> d, status |-> 400, error |-> "invalid_json", sent |-> NoSent]
        ELSE IF ~Truthy(device_id) \/ ~Truthy(raw_name)
        THEN [data |-> d, status |-> 400, error |-> "bad_request", sent |-> NoSent]
        ELSE IF new_name = ""
        THEN [data |-> d, status |-> 400, error |-> "bad_request", sent |-> NoSent]
        ELSE IF device_id.s \notin DOMAIN d
        THEN [data |-> d, status |-> 404, error |-> "device_not_found", sent |-> NoSent]
        ELSE IF \E k \in DOMAIN d : k # device_id.s /\ Get(d[k], "display_name", Null) = S(new_name)
        THEN [data |-> d, status |-> 409, error |-> "display_name_in_use", sent |-> NoSent]
        ELSE LET old == Get(d[device_id.s], "display_name", device_id)
                 ev == [event |-> "rename", ts |-> ts,
                        payload |-> [device_id |-> device_id, old_display_name |-> old,
                                     new_display_name |-> S(new_name), changed_by |-> SessionUser]]
             IN  [data |-> Put(d, device_id.s, AppendEvent(Put(d[device_id.s], "display_name", S(new_name)), ev)),
                  status |-> 200, error |-> "",
                  sent |-> [NoSent EXCEPT !.sqlite =
                               << [device_id |-> device_id.s, event_type |-> "rename",
                                   payload |-> [old_display_name |-> old, new_display_name |-> S(new_name),
                                                changed_by |-> SessionUser]] >>]]

ALLOWED_EXT == {"png", "jpg", "jpeg", "gif", "webp"}

\* the extension of the file names the model sends: name.rsplit(".", 1)[1].lower()
Extension(name) ==
    CASE name = "face.PNG" -> "png"
      [] name = "run.exe"  -> "exe"
      [] OTHER             -> ""

\* "." in name and name.rsplit(".", 1)[1].lower() in ALLOWED_EXT
allowed_file(name) == Extension(name) \in ALLOWED_EXT

\* file is the uploaded file's name, "" when the form has no usable file
UploadPhotoResult(d, patient_id, file, ts) ==
    IF file = ""
    THEN [data |-> d, status |-> 400, error |-> "no_file", sent |-> NoSent]
    ELSE IF ~allowed_file(file)
    THEN [data |-> d, status |-> 400, error |-> "invalid_file_type", sent |-> NoSent]
    ELSE LET loaded == IF patient_id \in DOMAIN d THEN d
                       ELSE Put(d, patient_id, [display_name |-> S(patient_id), events |-> <<>>])
             \* the URL is made of the patient id and the extension; the entry it is
             \* stored in gives the patient, so the model keeps the extension
             dev0 == Put(loaded[patient_id], "photo", S(Extension(file)))
             ev == [event |-> "photo_uploaded", ts |-> ts,
                    payload |-> [uploaded_by |-> SessionUser, filename |-> S(file)]]
             saved == Put(loaded, patient_id, AppendEvent(dev0, ev))
         IN  [data |-> saved, status |-> 200, error |-> "",
              sent |-> [NoSent EXCEPT !.devices = SyncRows(saved)]]

Admin(op, args, r) ==
    /\ clock < MaxAdminCalls
    /\ clock' = clock + 1
    /\ call' = [op |-> op, body |-> [kind |-> "admin", obj |-> args]]
    /\ before' = data
    /\ data' = r.data
    /\ resp' = [status |-> r.status, error |-> r.error, events_created |-> <<>>]
    /\ sent' = r.sent
    /\ UNCHANGED threads

DeviceIds == {"W1", "W2"}

ClearAlert ==
    \E id \in DeviceIds :
        Admin("clear_alert", [device_id |-> S(id)], ClearAlertResult(data, id, clock + 1))

RenamePayloads ==
    { EmptyDict,
      [device_id |-> S("W1"), new_name |-> S(" Bob ")],
      [old_id |-> S("W2"), new_id |-> S("Bob")],
      [device_id |-> S("W1"), new_name |-> S(" ")],
      [device_id |-> S("W1"), new_name |-> S("W2")],
      [device_id |-> S("W1")] }

RenameDevice ==
    \E p \in RenamePayloads : Admin("rename_device", p, RenameResult(data, p, clock + 1))

UploadPhoto ==
    \E id \in DeviceIds, file \in {"", "face.PNG", "run.exe"} :
        Admin("upload_photo", [patient_id |-> S(id), filename |-> S(file)],
              UploadPhotoResult(data, id, file, clock + 1))

\* the cache after PrefilledLen uploads {device_id: W1, steps: i}, the last at time 0
PrefilledLen == EventCap - 1

PrefilledData ==
    [W1 |-> [DefaultEntry("W1") EXCEPT
                !.steps = I(PrefilledLen),
                !.timestamp = I(0),
                !.last_raw = W1 @@ [steps |-> I(PrefilledLen)],
                !.events = [i \in 1..PrefilledLen |->
                               [event |-> "steps_update", ts |-> i - PrefilledLen,
                                payload |-> [steps |-> I(i)]]]]]

InitLog ==
    /\ data = PrefilledData
    /\ clock = 0
    /\ call = NoCall
    /\ resp = NoResp
    /\ before = PrefilledData
    /\ threads = [t \in Threads |-> Idle]
    /\ sent = NoSent

LogPayloads ==
    { W1 @@ [fall |-> I(1)],
      W1 @@ [sleep_state |-> I(1), steps |-> I(100)],
      W1 @@ [steps |-> I(PrefilledLen)],
      W1 @@ [event |-> S("custom")],
      [device |-> S("W2"), steps |-> I(100)],
      [device |-> S("W2"), sleep_state |-> I(0)],
      [device |-> S("W2"), fall |-> I(1)],
      W1 @@ [event |-> S("FALL")],
      W1 @@ [seizure |-> I(1), fall |-> I(1)] }

UploadLog == \E p \in LogPayloads : HandleUpTo(ObjectBody(p), {}, MaxAdminCalls)

NextLog == UploadLog \/ ClearAlert \/ RenameDevice \/ UploadPhoto

SpecLog == InitLog /\ [][NextLog]_vars

\* the same requests, starting with an empty cache
SpecAdmin == Init /\ [][NextLog]_vars

-----------------------------------------------------------------------------
(* Overlapping requests.  Each request runs in a thread of its own; load_data *)
(* and save_data each hold _file_lock for one read or one write of the whole *)
(* file, and everything between them works on the thread's own copy.         *)

ConcBodies ==
    { ObjectBody(p) : p \in { W1 @@ [fall |-> I(1)],
                              W1 @@ [fall |-> I(1), steps |-> I(100)],
                              W1 @@ [sleep_state |-> I(1)],
                              W1 @@ [event |-> I(5)],
                              [device |-> S("W2"), steps |-> I(100)],
                              [device |-> S("W2"), fall |-> I(1)],
                              [steps |-> I(100)] } }
    \cup { [kind |-> "array", obj |-> EmptyDict] }

\* the request is parsed and, unless it is refused, the cache is loaded
Begin(t, body) ==
    LET parsed == ParseBody(body)
        refused == UploadResult(data, body, clock + 1)
    IN  /\ threads[t].pc = "idle"
        /\ clock' = clock + 1
        /\ threads' = [threads EXCEPT ![t] =
               IF parsed.ok /\ parsed.isdict /\ Truthy(DeviceOf(parsed.incoming))
               THEN [pc |-> "loaded", body |-> body, loaded |-> data, ts |-> clock + 1,
                     status |-> 0, error |-> "", events_created |-> <<>>]
               ELSE [pc |-> "done", body |-> body, loaded |-> EmptyDict, ts |-> clock + 1,
                     status |-> refused.status, error |-> refused.error, events_created |-> <<>>]]
        /\ UNCHANGED <<data, call, resp, before, sent>>

\* thread t returns r: its copy is saved unless the handler failed
Saves(t, r) ==
    /\ threads[t].pc = "loaded"
    /\ data' = IF r.status = 200 THEN r.data ELSE data
    /\ before' = data
    /\ call' = [op |-> "upload", body |-> threads[t].body]
    /\ resp' = [status |-> r.status, error |-> r.error, events_created |-> r.events_created]
    /\ threads' = [threads EXCEPT ![t] =
           [@ EXCEPT !.pc = "done", !.status = r.status, !.error = r.error,
                     !.events_created = r.events_created]]
    /\ sent' = r.sent
    /\ UNCHANGED clock

\* the thread updates its copy, derives the events and saves the copy
Finish(t) ==
    Saves(t, UploadOutcome(threads[t].loaded, threads[t].body, threads[t].ts, {}))

BeginUpload == \E t \in Threads, b \in ConcBodies : Begin(t, b)

FinishUpload == \E t \in Threads : Finish(t)

NextConc == BeginUpload \/ FinishUpload

SpecConc == Init /\ [][NextConc]_vars

\* clear_alert overlapping with uploads.  The cache holds W1 with an active
\* fall alert: the state after the upload {device_id: W1, fall: 1} at time 0.
ActiveData == UploadResult(EmptyDict, ObjectBody(W1 @@ [fall |-> I(1)]), 0).data

InitClear ==
    /\ data = ActiveData
    /\ clock = 0
    /\ call = NoCall
    /\ resp = NoResp
    /\ before = ActiveData
    /\ threads = [t \in Threads |-> Idle]
    /\ sent = NoSent

\* payloads that carry no alert flag and no alert label
QuietBodies ==
    { ObjectBody(p) : p \in { W1 @@ [steps |-> I(100)],
                              W1 @@ [sleep_state |-> I(1)],
                              W1 @@ [temperature |-> I(36)],
                              W1 @@ [event |-> S("custom")],
                              W1 @@ [battery |-> I(50)],
                              [device |-> S("W2"), steps |-> I(100)] } }

BeginQuiet == \E t \in Threads, b \in QuietBodies : Begin(t, b)

ClearBody(id) == [kind |-> "admin", obj |-> [device_id |-> S(id)]]

\* clear_alert loads the cache and returns 404 when the device is not in it
BeginClear(t, id) ==
    /\ threads[t].pc = "idle"
    /\ clock' = clock + 1
    /\ threads' = [threads EXCEPT ![t] =
           IF id \in DOMAIN data
           THEN [pc |-> "clearing", body |-> ClearBody(id), loaded |-> data, ts |-> clock + 1,
                 status |-> 0, error |-> "", events_created |-> <<>>]
           ELSE [pc |-> "done", body |-> ClearBody(id), loaded |-> EmptyDict, ts |-> clock + 1,
                 status |-> 404, error |-> "not found", events_created |-> <<>>]]
    /\ UNCHANGED <<data, call, resp, before, sent>>

\* the thread clears the flags in its copy, appends the event and saves the copy
FinishClear(t) ==
    LET th == threads[t]
        r == ClearAlertResult(th.loaded, th.body.obj.device_id.s, th.ts)
    IN  /\ th.pc = "clearing"
        /\ data' = r.data
        /\ before' = data
        /\ call' = [op |-> "clear_alert", body |-> th.body]
        /\ resp' = [status |-> r.status, error |-> r.error, events_created |-> <<>>]
        /\ threads' = [threads EXCEPT ![t] = [th EXCEPT !.pc = "done", !.status = r.status]]
        /\ sent' = r.sent
        /\ UNCHANGED clock

BeginClearAlert == \E t \in Threads, id \in DeviceIds : BeginClear(t, id)

FinishClearAlert == \E t \in Threads : FinishClear(t)

NextClear == BeginQuiet \/ FinishUpload \/ BeginClearAlert \/ FinishClearAlert

SpecClear == InitClear /\ [][NextClear]_vars

-----------------------------------------------------------------------------
(* What the last step did, read off the recorded request and response *)

UploadOk == call.op = "upload" /\ resp.status = 200

Incoming == call.body.obj

Dev == DeviceOf(Incoming).s

Flags == {"seizure", "fall", "sos"}

\* the label of the payload, lower-cased; "" when there is none
Label == IF "event" \in DOMAIN Incoming THEN Lower(PyStr(Incoming["event"])) ELSE ""

KeyTrue(f) == f \in DOMAIN Incoming /\ Truthy(Incoming[f])

KeyFalse(f) == f \in DOMAIN Incoming /\ ~Truthy(Incoming[f])

\* the value stored for the device before the call; a new device has none
StoredBefore(k, default) == IF Dev \in DOMAIN before THEN Get(before[Dev], k, default) ELSE default

StoredAfter(k) == data[Dev][k]

WasSet(f) == Truthy(StoredBefore(f, I(0)))

IsSet(f) == Truthy(StoredAfter(f))

LogOf(d, id) == IF id \in DOMAIN d THEN Get(d[id], "events", <<>>) ELSE <<>>

\* the events the call appended to the device's log
Appended == SubSeq(LogOf(data, Dev), Len(LogOf(before, Dev)) + 1, Len(LogOf(data, Dev)))

AppendedOfType(ty) == {i \in 1..Len(Appended) : Appended[i].event = ty}

\* the flag's stored value goes from false to true in this call
Rises(f) == ~WasSet(f) /\ IsSet(f)

\* rule 1 matched: some flag's key is truthy in the payload and the flag was not set
AlertFired == \E f \in Flags : KeyTrue(f) /\ ~WasSet(f)

Before(f, g) == \E i, j \in 1..Len(FlagNames) : i < j /\ FlagNames[i] = f /\ FlagNames[j] = g

SleepChanged == "sleep_state" \in DOMAIN Incoming /\ StoredAfter("sleep_state") # StoredBefore("sleep_state", I(0))

StepsChanged == "steps" \in DOMAIN Incoming /\ StoredAfter("steps") # StoredBefore("steps", Null)

-----------------------------------------------------------------------------
(* Claims *)

\* C1: a successful upload appends at most one event to the device's log and
\* reports at most one entry in events_created, whatever the payload changes.
C1_AtMostOneEvent ==
    UploadOk => Len(Appended) <= 1 /\ Len(resp.events_created) <= 1

\* C2: for each flag f, (a) stored f false, payload sets f true and no
\* higher-priority flag also rises: exactly one event of type f is emitted;
\* (b) stored f true and payload sets f true: no event of type f is emitted
\* and f remains true.
C2_RisingEdgeOnly ==
    UploadOk =>
        \A f \in Flags :
            /\ (~WasSet(f) /\ KeyTrue(f) /\ ~\E g \in Flags : Before(g, f) /\ Rises(g))
                   => Cardinality(AppendedOfType(f)) = 1
            /\ (WasSet(f) /\ KeyTrue(f))
                   => AppendedOfType(f) = {} /\ IsSet(f)

\* C3: an upload that repeats the payload of the upload before it, on the
\* snapshot that upload produced, emits zero events.
C3_Idempotent ==
    [][(UploadOk /\ UploadOk' /\ call'.body = call.body)
           => (resp'.events_created = <<>> /\ LogOf(data', Dev') = LogOf(data, Dev'))]_vars

\* C4: when an alert rising edge fires, the only event of the call is the alert
\* (no sleep_state_change, steps_update or generic-label event), and the
\* snapshot's sleep_state, steps and temperature are updated from the payload.
C4_AlertWins ==
    (UploadOk /\ AlertFired) =>
        /\ Len(Appended) = 1
        /\ Appended[1].event \in Flags
        /\ Appended[1].payload = Incoming
        /\ resp.events_created = <<Appended[1].event>>
        /\ "sleep_state" \in DOMAIN Incoming =>
               StoredAfter("sleep_state") = I(IF Incoming["sleep_state"] \in {I(0), S("0"), B(FALSE)} THEN 0 ELSE 1)
        /\ "steps" \in DOMAIN Incoming =>
               StoredAfter("steps") = (CASE Incoming["steps"] \in {Fl(1005), S("100")} -> I(100) [] OTHER -> Incoming["steps"])
        /\ "temperature" \in DOMAIN Incoming =>
               StoredAfter("temperature") = (CASE Incoming["temperature"] = I(36) -> Fl(360) [] OTHER -> Incoming["temperature"])

\* C4 witness: an alert fired in a payload that also changed sleep_state and
\* steps and carried a custom label.
C4_Witness ==
    /\ UploadOk /\ AlertFired /\ SleepChanged /\ StepsChanged
    /\ Label = "custom"
    /\ "temperature" \in DOMAIN Incoming
    /\ Len(Appended) = 1

\* C5: when several flags rise in one payload, exactly one alert event is
\* emitted, its type is the first rising flag in the order seizure, fall, sos,
\* and every rising flag is set in the snapshot.
C5_FirstRisingFlag ==
    (UploadOk /\ Cardinality({f \in Flags : Rises(f)}) >= 2) =>
        LET first == CHOOSE f \in Flags : Rises(f) /\ ~\E g \in Flags : Before(g, f) /\ Rises(g)
        IN  /\ Cardinality({i \in 1..Len(Appended) : Appended[i].event \in Flags}) = 1
            /\ Cardinality(AppendedOfType(first)) = 1
            /\ \A f \in Flags : Rises(f) => IsSet(f)

\* C6: when no alert fired and the payload changes both sleep_state and steps,
\* the sleep-state-change event is emitted and no steps-update event is.
C6_SleepBeforeSteps ==
    (UploadOk /\ ~AlertFired /\ SleepChanged /\ StepsChanged) =>
        /\ Len(Appended) = 1
        /\ Appended[1].payload = [sleep_state |-> StoredAfter("sleep_state")]
        /\ resp.events_created = <<"sleep_state_change">>

\* C7: a label naming a flag whose key is absent and whose stored value is
\* false is an alert rising edge: one event, of the flag's type, carrying the
\* full payload, taking priority over sleep-state and steps changes.
C7_LabelIsAlert ==
    UploadOk =>
        \A f \in Flags :
            (Label = f /\ f \notin DOMAIN Incoming /\ ~WasSet(f)
                 /\ ~\E g \in Flags : Before(g, f) /\ Rises(g))
            => /\ Len(Appended) = 1
               /\ Appended[1].event = f
               /\ Appended[1].payload = Incoming
               /\ resp.events_created = <<f>>

\* C8: a payload that sets a flag false while it is stored true clears the
\* stored flag and emits no event of that flag's type, whatever else the
\* payload carries.
C8_FallingEdgeSilent ==
    UploadOk =>
        \A f \in Flags :
            (KeyFalse(f) /\ WasSet(f)) => (~IsSet(f) /\ AppendedOfType(f) = {})

\* C9 as stated: after upload a flag is true if its key is present and truthy
\* or if the label equals its name, also when the key is present and falsy.
C9_KeyOrLabel ==
    UploadOk => \A f \in Flags : (KeyTrue(f) \/ Label = f) => StoredAfter(f) = I(1)

\* C9 amended: after upload a flag is true if its key is present and truthy,
\* or if its key is absent and the label equals its name; a key that is
\* present and falsy sets the flag false even when the label names the flag.
C9_KeyThenLabel ==
    UploadOk =>
        \A f \in Flags :
            /\ KeyTrue(f) => StoredAfter(f) = I(1)
            /\ (f \notin DOMAIN Incoming /\ Label = f) => StoredAfter(f) = I(1)
            /\ KeyFalse(f) => StoredAfter(f) = I(0)

\* C9 witness: the key is present and falsy, the label names the flag, and the
\* flag is stored false.
C9_Witness ==
    UploadOk /\ \E f \in Flags : KeyFalse(f) /\ Label = f /\ StoredAfter(f) = I(0)

\* C10: an upload whose payload has neither a flag's key nor a label equal to
\* the flag's name leaves the flag's stored value unchanged.
C10_Sticky ==
    UploadOk =>
        \A f \in Flags :
            (f \notin DOMAIN Incoming /\ Label # f) => StoredAfter(f) = StoredBefore(f, I(0))

\* C10 witness: a flag set before the call is still set after a payload that
\* does not mention it.
C10_Witness ==
    UploadOk /\ \E f \in Flags : f \notin DOMAIN Incoming /\ Label # f /\ WasSet(f) /\ IsSet(f)

-----------------------------------------------------------------------------
(* The values the claims expect a payload to store, written out case by case *)

\* sleep_state after coercion to a boolean
ExpectedSleep == I(IF Incoming["sleep_state"] \in {I(0), S("0"), B(FALSE), Null, S("")} THEN 0 ELSE 1)

\* steps after coercion to an integer; a value that is no number is kept raw
ExpectedSteps ==
    CASE Incoming["steps"] \in {I(100), S("100"), Fl(1005)} -> I(100)
      [] OTHER -> Incoming["steps"]

\* the payload names an event type of its own
LabelGiven == Label \notin {"", "status"}

TypeOr(default) == IF LabelGiven THEN Label ELSE default

\* the appended events that carry only the given key
AppendedWithKey(k) == {i \in 1..Len(Appended) : DOMAIN Appended[i].payload = {k}}

\* rules 1 to 3, as the claims state them
Rule1 == AlertFired

Rule2 == ~AlertFired /\ "sleep_state" \in DOMAIN Incoming
             /\ ExpectedSleep # StoredBefore("sleep_state", I(0))

Rule3 == ~AlertFired /\ "steps" \in DOMAIN Incoming
             /\ (StoredBefore("steps", Null) = Null \/ ExpectedSteps # StoredBefore("steps", Null))

Count(b) == IF b THEN 1 ELSE 0

\* C11: with no alert fired and sleep_state present, a sleep event is emitted
\* exactly when the coerced value differs from the stored one; its type is the
\* label (compared case-insensitively) unless that is absent, empty or
\* "status", then "sleep_state_change"; its payload is {sleep_state: new}.
C11_SleepRule ==
    (UploadOk /\ ~AlertFired /\ "sleep_state" \in DOMAIN Incoming) =>
        /\ StoredAfter("sleep_state") = ExpectedSleep
        /\ (AppendedWithKey("sleep_state") # {}) <=> (ExpectedSleep # StoredBefore("sleep_state", I(0)))
        /\ Cardinality(AppendedWithKey("sleep_state")) <= 1
        /\ \A i \in AppendedWithKey("sleep_state") :
               /\ Appended[i].event = TypeOr("sleep_state_change")
               /\ Appended[i].payload = [sleep_state |-> ExpectedSleep]

\* C11 witness: a string value is coerced, differs from the stored value and
\* the event takes the payload's label
C11_Witness ==
    /\ UploadOk /\ ~AlertFired /\ "sleep_state" \in DOMAIN Incoming
    /\ \/ (LabelGiven /\ AppendedWithKey("sleep_state") # {})
       \/ (Incoming["sleep_state"] = S("0") /\ WasSet("sleep_state") /\ AppendedWithKey("sleep_state") # {})

\* C12: with no earlier rule emitting and steps present, a steps event is
\* emitted exactly when there was no stored value or the new value differs;
\* its type is the label or "steps_update", its payload {steps: new}.  A
\* payload repeating the stored value emits no event and leaves steps as is.
C12_StepsRule ==
    (UploadOk /\ ~Rule1 /\ ~Rule2 /\ "steps" \in DOMAIN Incoming) =>
        /\ StoredAfter("steps") = ExpectedSteps
        /\ (AppendedWithKey("steps") # {})
               <=> (StoredBefore("steps", Null) = Null \/ ExpectedSteps # StoredBefore("steps", Null))
        /\ Cardinality(AppendedWithKey("steps")) <= 1
        /\ \A i \in AppendedWithKey("steps") :
               /\ Appended[i].event = TypeOr("steps_update")
               /\ Appended[i].payload = [steps |-> ExpectedSteps]
        /\ (StoredBefore("steps", Null) # Null /\ ExpectedSteps = StoredBefore("steps", Null))
               => /\ StoredAfter("steps") = StoredBefore("steps", Null)
                  /\ (~LabelGiven => (Appended = <<>> /\ resp.events_created = <<>>))

\* C12 witness: the stored steps value is repeated and nothing is emitted
C12_Witness ==
    /\ UploadOk /\ ~Rule1 /\ ~Rule2 /\ "steps" \in DOMAIN Incoming
    /\ StoredBefore("steps", Null) = I(100) /\ ExpectedSteps = I(100)
    /\ Appended = <<>>

\* C13: the generic event (type = label, payload = the full payload) is
\* emitted exactly when rules 1-3 emitted nothing and the label is present,
\* non-empty and not "status".
C13_GenericRule ==
    UploadOk =>
        LET n == Count(Rule1) + Count(Rule2) + Count(Rule3)
        IN  IF n = 0 /\ LabelGiven
            THEN /\ Len(Appended) = 1
                 /\ Appended[1].event = Label
                 /\ Appended[1].payload = Incoming
                 /\ resp.events_created = <<Label>>
            ELSE /\ Len(Appended) = n
                 /\ Rule1 => (Appended[1].event \in Flags /\ Appended[1].payload = Incoming)
                 /\ ~Rule1 => \A i \in 1..Len(Appended) : Appended[i].payload # Incoming

\* C13 witness: a labelled payload changes sleep_state, so rule 2 emits and
\* the generic rule does not
C13_Witness ==
    UploadOk /\ LabelGiven /\ Rule2 /\ Len(Appended) = 1

\* C14: no event in any device's log has the type "status" in any letter case.
C14_NoStatusType ==
    \A id \in DOMAIN data :
        \A i \in 1..Len(LogOf(data, id)) : Lower(LogOf(data, id)[i].event) # "status"

\* C14 witness: a payload labelled "status" emitted an event
C14_Witness ==
    UploadOk /\ Label = "status" /\ Len(Appended) >= 1

\* C15: an upload whose payload has no device identifier fails with
\* missing_device_id (400) and leaves the persisted data unchanged.
C15_MissingDeviceId ==
    (call.op = "upload" /\ call.body.kind = "object"
         /\ \A k \in {"device_id", "device", "deviceId"} :
                k \notin DOMAIN Incoming \/ Incoming[k] \in {S(""), Null})
    => (resp.status = 400 /\ resp.error = "missing_device_id" /\ data = before)

\* C15 witness: devices exist and a payload without identifier was refused
C15_Witness ==
    /\ call.op = "upload" /\ call.body.kind = "object"
    /\ DOMAIN Incoming \cap {"device_id", "device", "deviceId"} = {}
    /\ resp.status = 400 /\ data # EmptyDict

\* C16: a body that is not JSON, or is JSON but not an object, is rejected
\* with 400 (invalid_json, payload_must_be_object) and nothing is changed.
C16_BadBodyRejected ==
    (call.op = "upload" /\ call.body.kind # "object") =>
        /\ resp.status = 400
        /\ resp.error = (IF call.body.kind = "invalid" THEN "invalid_json" ELSE "payload_must_be_object")
        /\ resp.events_created = <<>>
        /\ data = before

\* C16 witness: devices exist and an array body was refused
C16_Witness ==
    call.op = "upload" /\ call.body.kind = "array" /\ resp.status = 400 /\ data # EmptyDict

\* C17: once the payload is an object with a device identifier, no value of a
\* recognized field makes the upload fail: it returns ok and the snapshot is
\* persisted.
C17_NeverFails ==
    (call.op = "upload" /\ call.body.kind = "object" /\ Truthy(DeviceOf(Incoming))) =>
        /\ resp.status = 200
        /\ Dev \in DOMAIN data
        /\ data[Dev].last_raw = Incoming

-----------------------------------------------------------------------------
(* Overlapping uploads *)

ThreadDev(t) == DeviceOf(threads[t].body.obj).s

ThreadOk(t) == threads[t].pc = "done" /\ threads[t].status = 200

\* the events in the device's log that thread t appended
LoggedBy(t) ==
    {i \in 1..Len(LogOf(data, ThreadDev(t))) : LogOf(data, ThreadDev(t))[i].ts = threads[t].ts}

\* the call's snapshot update and its events are in the persisted state
Persisted(t) ==
    /\ ThreadDev(t) \in DOMAIN data
    /\ Cardinality(LoggedBy(t)) = Len(threads[t].events_created)
    /\ \A k \in DOMAIN threads[t].body.obj \cap {"steps", "sleep_state"} :
           data[ThreadDev(t)][k] = threads[t].body.obj[k]

\* C18: when two uploads for different devices have both returned ok, the
\* persisted state holds both devices' snapshots and both calls' events.
C18_DifferentDevices ==
    \A t, u \in Threads :
        (t # u /\ ThreadOk(t) /\ ThreadOk(u) /\ ThreadDev(t) # ThreadDev(u))
            => (Persisted(t) /\ Persisted(u))

\* C19: two uploads for the same device that both carry the same rising flag
\* append exactly one alert event in total, and neither call's snapshot
\* update or event is lost.
C19_SameDeviceSerialized ==
    \A t, u \in Threads : \A f \in Flags :
        (/\ t # u /\ ThreadOk(t) /\ ThreadOk(u) /\ ThreadDev(t) = ThreadDev(u)
         /\ \A v \in {t, u} : f \in DOMAIN threads[v].body.obj /\ Truthy(threads[v].body.obj[f]))
        => /\ Cardinality({i \in 1..Len(LogOf(data, ThreadDev(t))) : LogOf(data, ThreadDev(t))[i].event = f}) = 1
           /\ Cardinality({v \in {t, u} : f \in {threads[v].events_created[i] : i \in 1..Len(threads[v].events_created)}}) = 1
           /\ Persisted(t) /\ Persisted(u)

-----------------------------------------------------------------------------
(* The event log *)

\* the number of events the last call appended to the log of device id
AppendedTo(id) ==
    IF resp.status # 200 THEN 0
    ELSE CASE call.op = "upload" -> IF Dev = id THEN Len(resp.events_created) ELSE 0
           [] call.op = "clear_alert" -> IF call.body.obj.device_id = S(id) THEN 1 ELSE 0
           [] call.op = "rename_device" ->
                  IF PyOr(Get(call.body.obj, "device_id", Null), Get(call.body.obj, "old_id", Null)) = S(id)
                  THEN 1 ELSE 0
           [] call.op = "upload_photo" -> IF call.body.obj.patient_id = S(id) THEN 1 ELSE 0
           [] OTHER -> 0

\* C20: after every call each log holds at most 200 events and is the last
\* 200 entries of (log before the call, then the events the call appended):
\* what is retained is unmodified and in order, and only the oldest go.
C20_LogCap ==
    \A id \in DOMAIN data :
        LET a == LogOf(data, id)
            b == LogOf(before, id)
            k == AppendedTo(id)
            kept == Len(a) - k
        IN  /\ Len(a) <= 200
            /\ Len(a) = (IF Len(b) + k <= 200 THEN Len(b) + k ELSE 200)
            /\ \A i \in 1..kept : a[i] = b[Len(b) - kept + i]
            /\ \A i \in (kept + 1)..Len(a) : a[i].ts = clock

\* C20 witness: a full log received new events and its oldest were evicted
C20_Witness ==
    \E id \in DOMAIN data :
        /\ Len(LogOf(before, id)) + AppendedTo(id) > 200
        /\ Len(LogOf(data, id)) = 200
        /\ LogOf(data, id)[1] # LogOf(before, id)[1]

-----------------------------------------------------------------------------
(* The snapshot *)

\* none of the four rules matches
NoRule == ~Rule1 /\ ~Rule2 /\ ~Rule3 /\ ~LabelGiven

\* temperature after coercion to a float; a value that is no number is kept raw
ExpectedTemperature ==
    CASE Incoming["temperature"] = I(36) -> Fl(360)
      [] OTHER -> Incoming["temperature"]

\* C21: every successful upload stores the call time as the snapshot's
\* timestamp and the payload, unrecognized fields included, as its last raw
\* payload; when no rule matches nothing is appended and the updated
\* snapshot is in the persisted cache.
C21_Stamped ==
    UploadOk =>
        /\ StoredAfter("timestamp") = I(clock)
        /\ StoredAfter("last_raw") = Incoming
        /\ NoRule =>
               /\ Appended = <<>>
               /\ resp.events_created = <<>>
               /\ "temperature" \in DOMAIN Incoming => StoredAfter("temperature") = ExpectedTemperature

\* C21 witness: a payload with only an unrecognized field, for a device seen
\* before, matched no rule and moved the timestamp
C21_Witness ==
    /\ UploadOk /\ NoRule /\ "battery" \in DOMAIN Incoming
    /\ Dev \in DOMAIN before
    /\ StoredAfter("timestamp") # StoredBefore("timestamp", Null)
    /\ StoredAfter("last_raw") = Incoming
    /\ Appended = <<>>

FrameKeys == {"temperature", "steps", "sleep_state", "display_name"}

\* C22: upload leaves temperature, steps, sleep_state and display_name as they
\* were when the payload does not carry their key; previous {fall: 0,
\* steps: 100} with payload {fall: 1} gives {fall: 1, steps: 100} and one
\* fall event.
C22_AbsentUnchanged ==
    UploadOk =>
        /\ \A k \in FrameKeys :
               k \notin DOMAIN Incoming => StoredAfter(k) = StoredBefore(k, DefaultEntry(Dev)[k])
        /\ (Incoming = W1 @@ [fall |-> I(1)] /\ StoredBefore("fall", I(0)) = I(0)
                /\ StoredBefore("steps", Null) = I(100))
           => /\ StoredAfter("fall") = I(1)
              /\ StoredAfter("steps") = I(100)
              /\ Len(Appended) = 1
              /\ Appended[1].event = "fall"
              /\ resp.events_created = <<"fall">>

\* C22 witness: the scenario of the claim
C22_Witness ==
    /\ UploadOk /\ Incoming = W1 @@ [fall |-> I(1)]
    /\ StoredBefore("steps", Null) = I(100) /\ StoredBefore("fall", I(0)) = I(0)
    /\ StoredAfter("steps") = I(100) /\ StoredAfter("fall") = I(1)

-----------------------------------------------------------------------------
(* The secondary stores *)

\* C23: when a secondary store is down during an upload, the response, the
\* cached snapshot and the event log are what they are when every store is up.
C23_OutageHarmless ==
    (call.op = "upload" /\ sent.down # {}) =>
        LET up == UploadOutcome(before, call.body, clock, {})
        IN  /\ resp.status = 200
            /\ up.status = 200
            /\ resp.events_created = up.events_created
            /\ data = up.data

\* C23 witness: an upload emitted an event and saved it while all three
\* collaborators were down
C23_Witness ==
    /\ UploadOk /\ sent.down = Collaborators
    /\ resp.events_created # <<>> /\ Len(Appended) = 1
    /\ data # before

-----------------------------------------------------------------------------
(* The first payload of a device *)

\* the device has received no status payload yet: it has no entry, or the
\* entry upload_photo made for it
FirstPayload == Dev \notin DOMAIN before \/ "last_raw" \notin DOMAIN before[Dev]

\* what the call returns for a device without an entry
FreshOutcome == UploadResult(EmptyDict, call.body, clock)

-----------------------------------------------------------------------------
(* The records of an emitted event *)

\* C25: for every successful upload the response's events_created, the types
\* of the events appended to the device's log and the types of the event
\* rows sent to the secondary store are the same strings, in the same order.
C25_RecordsAgree ==
    UploadOk =>
        /\ Len(Appended) = Len(resp.events_created)
        /\ Len(sent.events) = Len(resp.events_created)
        /\ \A i \in 1..Len(resp.events_created) :
               /\ Appended[i].event = resp.events_created[i]
               /\ sent.events[i].event_type = resp.events_created[i]

-----------------------------------------------------------------------------
(* Alerts while active, clearing and re-arming *)

\* C26: over two successive uploads for a device during which a flag is true
\* in the snapshot before, between and after them, at most one event of the
\* flag's type is appended to the device's log.
C26_NoDuplicate ==
    [][\A f \in Flags :
          (UploadOk /\ UploadOk' /\ Dev' = Dev /\ WasSet(f) /\ IsSet(f) /\ IsSet(f)')
              => Cardinality(AppendedOfType(f)) + Cardinality(AppendedOfType(f)') <= 1]_vars

\* the device a clear_alert or rename_device call names
Target ==
    IF call.op = "clear_alert" THEN call.body.obj.device_id.s
    ELSE PyOr(Get(call.body.obj, "device_id", Null), Get(call.body.obj, "old_id", Null)).s

\* every other device's entry is as it was
OthersUnchanged(id) ==
    /\ DOMAIN data = DOMAIN before \cup {id}
    /\ \A other \in DOMAIN data \ {id} : data[other] = before[other]

\* C27: clear_alert on a known device sets fall, seizure and sos to 0 and
\* appends exactly one alert_cleared event, with temperature, steps,
\* sleep_state, display_name and the last raw payload as they were; on an
\* unknown device it returns 404 and changes nothing.
C27_ClearAlert ==
    (call.op = "clear_alert") =>
        IF Target \in DOMAIN before
        THEN /\ resp.status = 200
             /\ \A f \in Flags : data[Target][f] = I(0)
             /\ LogOf(data, Target) = LogOf(before, Target)
                    \o << [event |-> "alert_cleared", ts |-> clock, payload |-> [cleared_by |-> SessionUser]] >>
             /\ DOMAIN data[Target] = DOMAIN before[Target] \cup Flags \cup {"events"}
             /\ \A k \in DOMAIN before[Target] \ (Flags \cup {"events"}) :
                    data[Target][k] = before[Target][k]
             /\ OthersUnchanged(Target)
        ELSE /\ resp.status = 404
             /\ data = before

\* C27 witness: an active alert of a device with a payload on record was cleared
C27_Witness ==
    /\ call.op = "clear_alert" /\ resp.status = 200
    /\ before[Target].fall = I(1) /\ data[Target].fall = I(0)
    /\ data[Target].last_raw = W1 @@ [fall |-> I(1)]
    /\ Len(LogOf(data, Target)) = 2

\* the last entry of the device's log before the call is alert_cleared: no
\* upload has set a flag since clear_alert completed
JustCleared ==
    LET log == LogOf(before, Dev)
    IN  log # <<>> /\ log[Len(log)].event = "alert_cleared"

\* the flags whose key the payload carries with a truthy value
KeyedFlags == {f \in Flags : KeyTrue(f)}

\* C28: the next upload after clear_alert whose payload sets an alert flag
\* truthy emits one alert event, for the first such flag in priority order,
\* also when an event of that type is in the log from before the clear.
C28_Rearmed ==
    (UploadOk /\ JustCleared /\ KeyedFlags # {}) =>
        LET first == CHOOSE f \in KeyedFlags : ~\E g \in KeyedFlags : Before(g, f)
        IN  /\ resp.events_created = <<first>>
            /\ Len(Appended) = 1
            /\ Appended[1].event = first
            /\ Appended[1].payload = Incoming
            /\ IsSet(first)

\* C28 witness: fall was logged, cleared, and is logged again by the next upload
C28_Witness ==
    /\ UploadOk /\ JustCleared /\ KeyTrue("fall")
    /\ \E i \in 1..Len(LogOf(before, Dev)) : LogOf(before, Dev)[i].event = "fall"
    /\ Len(Appended) = 1 /\ Appended[1].event = "fall"

-----------------------------------------------------------------------------
(* Display names *)

NameOf(d, id) == Get(d[id], "display_name", Null)

\* C30: no two devices have the same display_name; a rename to a name another
\* device holds is refused with 409 and changes nothing; a successful rename
\* changes only display_name and appends exactly one rename event.
C30_UniqueNames ==
    /\ \A a, b \in DOMAIN data : a # b => NameOf(data, a) # NameOf(data, b)
    /\ (call.op = "rename_device" /\ resp.status = 409) => data = before
    /\ (call.op = "rename_device" /\ Target \in DOMAIN before
            /\ \E other \in DOMAIN before \ {Target} :
                   NameOf(before, other) = S(Strip(Get(call.body.obj, "new_name", Get(call.body.obj, "new_id", Null)).s)))
           => resp.status = 409
    /\ (call.op = "rename_device" /\ resp.status = 200) =>
           /\ \A k \in DOMAIN before[Target] \ {"display_name", "events"} :
                  data[Target][k] = before[Target][k]
           /\ DOMAIN data[Target] = DOMAIN before[Target]
           /\ Len(LogOf(data, Target)) = Len(LogOf(before, Target)) + 1
           /\ LogOf(data, Target)[Len(LogOf(data, Target))].event = "rename"
           /\ SubSeq(LogOf(data, Target), 1, Len(LogOf(before, Target))) = LogOf(before, Target)
           /\ OthersUnchanged(Target)

-----------------------------------------------------------------------------
(* clear_alert overlapping with an upload *)

IsClear(t) == threads[t].body.kind = "admin"

\* C29: once a clear_alert and an upload for the same device that names no
\* alert flag have both returned, whatever their interleaving, the device's
\* fall, seizure and sos are 0 and the alert_cleared event is in its log.
C29_ClearNotUndone ==
    \A t, u \in Threads :
        (/\ ThreadOk(t) /\ IsClear(t)
         /\ ThreadOk(u) /\ ~IsClear(u) /\ ThreadDev(u) = ThreadDev(t))
        => /\ \A f \in Flags : data[ThreadDev(t)][f] = I(0)
           /\ \E i \in 1..Len(LogOf(data, ThreadDev(t))) :
                  /\ LogOf(data, ThreadDev(t))[i].event = "alert_cleared"
                  /\ LogOf(data, ThreadDev(t))[i].ts = threads[t].ts

====
